---- MODULE Spec2Model ----
(***************************************************************************)
(* Form orchestration protocol of components/ValidatedForm: the form      *)
(* controller FormWithValidation (Form.tsx) and the field controller      *)
(* InputBase.  State is the React state of the mounted form instance and  *)
(* of its fields; one action per event handler or effect callback.        *)
(* User events are taken only when every effect of the previous commit    *)
(* has run (React flushes the effects of a discrete event before the      *)
(* next event is dispatched).                                             *)
(***************************************************************************)
EXTENDS Integers, Sequences, FiniteSets, TLC

\* ---- bounds ----
NumFields == 2
MaxEvents == 2

\* ---- domains ----
Ids == 1..NumFields
None == 0
Events == 1..MaxEvents
Values == {"", "bad", "ok"}
NoCall == [event |-> None, data |-> <<>>, immediate |-> FALSE]
NoSweep == [pc |-> "idle", start |-> <<>>, todo |-> <<>>, invoked |-> <<>>]

VARIABLES
  didTapSubmit,   \* submit signal (FormStateContext)
  currentEvent,   \* pending submit slot: None or the captured event
  didPassData,    \* Result Registry: id -> BOOLEAN
  clearFuncs,     \* Clear Registry: id -> the registered reset action (for a
                  \* field's closure, the `required` it captured)
  didPass,        \* memoised aggregate validity of the last render
  mounted,        \* set of mounted field identities
  required,       \* field prop `required`
  value,          \* field value
  messages,       \* field error-message list
  didValidate,    \* field flag "has validated at least once"
  focused,        \* the field holding focus, or None
  nextEvent,      \* identity of the next submit event
  calls,          \* number of calls of the submit collaborator
  call,           \* the collaborator call made by the last step, if any
  cancelled,      \* a focus has occurred since the last submit attempt
  op,             \* the handler or effect that ran last
  sweep           \* progress of a running clear(): snapshot, rest, invoked

vars == <<didTapSubmit, currentEvent, didPassData, clearFuncs, didPass,
          mounted, required, value, messages, didValidate, focused,
          nextEvent, calls, call, cancelled, op, sweep>>

\* ---- pure helpers ----

\* Object.values(didPassData) in key order
RECURSIVE ObjectValues(_)
ObjectValues(rec) ==
  IF DOMAIN rec = {} THEN <<>>
  ELSE LET k == CHOOSE x \in DOMAIN rec : \A y \in DOMAIN rec : x <= y
       IN <<rec[k]>> \o ObjectValues([j \in DOMAIN rec \ {k} |-> rec[j]])

\* Array.prototype.every(v => v)
RECURSIVE Every(_)
Every(s) == IF s = <<>> THEN TRUE ELSE Head(s) /\ Every(Tail(s))

\* didPass useMemo: empty registry is invalid, otherwise all entries true
ComputeDidPassNoEmptyCheck(data) == Every(ObjectValues(data))
ComputeDidPass(data) ==
  IF Cardinality(DOMAIN data) = 0 THEN FALSE
  ELSE Every(ObjectValues(data))

\* setDidPass: setDidPassData(prev => ({...prev, [myId]: didPass}))
SetDidPassReplace(prev, myId, passed) == [k \in {myId} |-> passed]
SetDidPass(prev, myId, passed) ==
  [k \in DOMAIN prev \cup {myId} |-> IF k = myId THEN passed ELSE prev[k]]

\* unmount cleanup: newState = {...prev}; delete newState[myId]
RemoveDidPassKeepsFalse(prev, myId) ==
  [k \in DOMAIN prev |-> IF k = myId THEN FALSE ELSE prev[k]]
RemoveDidPass(prev, myId) ==
  [k \in DOMAIN prev \ {myId} |-> prev[k]]

\* setClearFunctions: clearFuncsRecordRef.current[id] = func
SetClearFunctionsReplace(rec, id, capturedRequired) ==
  [k \in {id} |-> capturedRequired]
SetClearFunctions(rec, id, capturedRequired) ==
  [k \in DOMAIN rec \cup {id} |-> IF k = id THEN capturedRequired ELSE rec[k]]

\* removeClearFunctions: delete clearFuncsRecordRef.current[id]
RemoveClearFunctionsNoop(rec, id) == rec
RemoveClearFunctions(rec, id) ==
  [k \in DOMAIN rec \ {id} |-> rec[k]]

\* the field's validation rule (external collaborator)
Rule(v, req) ==
  IF v = "" THEN [passed |-> ~req,
                  messages |-> IF req THEN <<"required">> ELSE <<>>]
  ELSE IF v = "ok" THEN [passed |-> TRUE, messages |-> <<>>]
  ELSE [passed |-> FALSE, messages |-> <<"invalid">>]

\* new FormData(target): one value per rendered field
FormDataEmpty == <<>>
FormData == [id \in mounted |-> value[id]]

\* effects still to run after the last commit
SignalPending == didTapSubmit /\ \E id \in mounted : ~didValidate[id]
ReplayPending == didPass /\ currentEvent # None
Settled == ~SignalPending /\ ~ReplayPending

TypeOK ==
  /\ didTapSubmit \in BOOLEAN
  /\ currentEvent \in Events \cup {None}
  /\ DOMAIN didPassData \subseteq Ids
  /\ \A id \in DOMAIN didPassData : didPassData[id] \in BOOLEAN
  /\ DOMAIN clearFuncs \subseteq Ids
  /\ didPass \in BOOLEAN
  /\ mounted \subseteq Ids
  /\ required \in [Ids -> BOOLEAN]
  /\ value \in [Ids -> Values]
  /\ didValidate \in [Ids -> BOOLEAN]
  /\ focused \in Ids \cup {None}
  /\ nextEvent \in 1..(MaxEvents + 1)
  /\ calls \in 0..MaxEvents
  /\ cancelled \in BOOLEAN

Init ==
  /\ didTapSubmit = FALSE
  /\ currentEvent = None
  /\ didPassData = <<>>
  /\ clearFuncs = <<>>
  /\ didPass = ComputeDidPass(<<>>)
  /\ mounted = {}
  /\ required = [id \in Ids |-> FALSE]
  /\ value = [id \in Ids |-> ""]
  /\ messages = [id \in Ids |-> <<>>]
  /\ didValidate = [id \in Ids |-> FALSE]
  /\ focused = None
  /\ nextEvent = 1
  /\ calls = 0
  /\ call = NoCall
  /\ cancelled = FALSE
  /\ op = "init"
  /\ sweep = NoSweep

\* ---- field controller (InputBase) ----

\* validate(): run the rule on the current value and report the outcome
ValidateReport(data, id) ==
  SetDidPass(data, id, Rule(value[id], required[id]).passed)

\* the submit-signal effect of every field in ids, in one commit
RECURSIVE ValidateAll(_, _)
ValidateAll(data, ids) ==
  IF ids = {} THEN data
  ELSE LET id == CHOOSE x \in ids : \A y \in ids : x <= y
       IN ValidateAll(ValidateReport(data, id), ids \ {id})

\* the reset closure registered by a field:
\* setValue(''); setInternalErrorMessage([]); setDidPass(!required)
ClearAllResultsKeep(data, funcs, ids) == data
RECURSIVE ClearAllResults(_, _, _)
ClearAllResults(data, funcs, ids) ==
  IF ids = {} THEN data
  ELSE LET id == CHOOSE x \in ids : \A y \in ids : x <= y
       IN ClearAllResults(SetDidPass(data, id, ~funcs[id]), funcs, ids \ {id})

\* the result registered on mount: setDidPass(!required)
InitialResultAlways(req) == TRUE
InitialResult(req) == ~req

\* mount effect, then the submit-signal effect of the same commit
Mount(id, req, v) ==
  /\ op' = "mount"
  /\ UNCHANGED sweep
  /\ Settled
  /\ id \notin mounted
  /\ mounted' = mounted \cup {id}
  /\ required' = [required EXCEPT ![id] = req]
  /\ value' = [value EXCEPT ![id] = v]
  /\ LET registered == SetDidPass(didPassData, id, InitialResult(req))
     IN IF didTapSubmit
        THEN /\ didPassData' = SetDidPass(registered, id, Rule(v, req).passed)
             /\ messages' = [messages EXCEPT ![id] = Rule(v, req).messages]
             /\ didValidate' = [didValidate EXCEPT ![id] = TRUE]
        ELSE /\ didPassData' = registered
             /\ UNCHANGED <<messages, didValidate>>
  /\ clearFuncs' = SetClearFunctions(clearFuncs, id, req)
  /\ didPass' = ComputeDidPass(didPassData')
  /\ call' = NoCall
  /\ UNCHANGED <<didTapSubmit, currentEvent, focused, nextEvent, calls,
                 cancelled>>

\* cleanup of the mount effect; the field's own state goes with it
Unmount(id) ==
  /\ op' = "unmount"
  /\ UNCHANGED sweep
  /\ Settled
  /\ id \in mounted
  /\ mounted' = mounted \ {id}
  /\ didPassData' = RemoveDidPass(didPassData, id)
  /\ clearFuncs' = RemoveClearFunctions(clearFuncs, id)
  /\ required' = [required EXCEPT ![id] = FALSE]
  /\ value' = [value EXCEPT ![id] = ""]
  /\ messages' = [messages EXCEPT ![id] = <<>>]
  /\ didValidate' = [didValidate EXCEPT ![id] = FALSE]
  /\ focused' = IF focused = id THEN None ELSE focused
  /\ didPass' = ComputeDidPass(didPassData')
  /\ call' = NoCall
  /\ UNCHANGED <<didTapSubmit, currentEvent, nextEvent, calls, cancelled>>

\* cancelPendingSubmit: setCurrentEvent(undefined)
CancelPendingSubmitNoop(ev) == ev
CancelPendingSubmit(ev) == None

\* onFocus
Focus(id) ==
  /\ op' = "focus"
  /\ UNCHANGED sweep
  /\ Settled
  /\ id \in mounted
  /\ focused = None
  /\ focused' = id
  /\ currentEvent' = CancelPendingSubmit(currentEvent)
  /\ didPass' = ComputeDidPass(didPassData)
  /\ cancelled' = TRUE
  /\ UNCHANGED <<didTapSubmit, didPassData, clearFuncs, mounted, required,
                 value, messages, didValidate, nextEvent, calls>>
  /\ call' = NoCall

\* onChange: setValue(e.target.value)
Change(id, v) ==
  /\ op' = "change"
  /\ UNCHANGED sweep
  /\ Settled
  /\ focused = id
  /\ v # value[id]
  /\ value' = [value EXCEPT ![id] = v]
  /\ didPass' = ComputeDidPass(didPassData)
  /\ UNCHANGED <<didTapSubmit, currentEvent, didPassData, clearFuncs,
                 mounted, required, messages, didValidate, focused,
                 nextEvent, calls, cancelled>>
  /\ call' = NoCall

\* onBlur: validate
Blur(id) ==
  /\ op' = "blur"
  /\ UNCHANGED sweep
  /\ Settled
  /\ focused = id
  /\ focused' = None
  /\ didPassData' = ValidateReport(didPassData, id)
  /\ messages' = [messages EXCEPT
                    ![id] = Rule(value[id], required[id]).messages]
  /\ didValidate' = [didValidate EXCEPT ![id] = TRUE]
  /\ didPass' = ComputeDidPass(didPassData')
  /\ UNCHANGED <<didTapSubmit, currentEvent, clearFuncs, mounted, required,
                 value, nextEvent, calls, cancelled>>
  /\ call' = NoCall

\* submit-signal effect: if (formState && !didValidate) validate()
SignalEffects ==
  /\ op' = "signal"
  /\ UNCHANGED sweep
  /\ SignalPending
  /\ LET ids == {id \in mounted : ~didValidate[id]}
     IN /\ didPassData' = ValidateAll(didPassData, ids)
        /\ messages' = [id \in Ids |->
                          IF id \in ids
                          THEN Rule(value[id], required[id]).messages
                          ELSE messages[id]]
        /\ didValidate' = [id \in Ids |-> didValidate[id] \/ id \in ids]
  /\ didPass' = ComputeDidPass(didPassData')
  /\ UNCHANGED <<didTapSubmit, currentEvent, clearFuncs, mounted, required,
                 value, focused, nextEvent, calls, cancelled>>
  /\ call' = NoCall

\* ---- form controller (FormWithValidation) ----

\* clear: Object.values(clearFuncsRecordRef.current).forEach(f => f())
Clear ==
  /\ op' = "clear"
  /\ UNCHANGED sweep
  /\ Settled
  /\ LET ids == DOMAIN clearFuncs
     IN /\ value' = [id \in Ids |-> IF id \in ids THEN "" ELSE value[id]]
        /\ messages' = [id \in Ids |->
                          IF id \in ids THEN <<>> ELSE messages[id]]
        /\ didPassData' = ClearAllResults(didPassData, clearFuncs, ids)
  /\ didPass' = ComputeDidPass(didPassData')
  /\ UNCHANGED <<didTapSubmit, currentEvent, clearFuncs, mounted, required,
                 didValidate, focused, nextEvent, calls, cancelled>>
  /\ call' = NoCall

\* setCurrentEvent(prev => prev ? prev : event)
KeepFirstOverwrite(prev, event) == event
KeepFirst(prev, event) == IF prev # None THEN prev ELSE event

\* the branch of localOnSubmit: if (didPass) submit now, else store
SubmitsNowAlways(passed) == TRUE
SubmitsNowNever(passed) == FALSE
SubmitsNow(passed) == passed

\* setDidTapSubmit(true)
RaiseSignalToggle(prev) == ~prev
RaiseSignal(prev) == TRUE

\* localOnSubmit
Submit ==
  /\ op' = "submit"
  /\ UNCHANGED sweep
  /\ Settled
  /\ nextEvent <= MaxEvents
  /\ didTapSubmit' = RaiseSignal(didTapSubmit)
  /\ IF SubmitsNow(didPass)
     THEN /\ calls' = calls + 1
          /\ call' = [event |-> nextEvent, data |-> FormData,
                       immediate |-> TRUE]
          /\ UNCHANGED currentEvent
     ELSE /\ currentEvent' = KeepFirst(currentEvent, nextEvent)
          /\ call' = NoCall
          /\ UNCHANGED calls
  /\ nextEvent' = nextEvent + 1
  /\ didPass' = ComputeDidPass(didPassData)
  /\ cancelled' = FALSE
  /\ UNCHANGED <<didPassData, clearFuncs, mounted, required, value,
                 messages, didValidate, focused>>

\* the replay effect's setCurrentEvent(undefined)
AfterReplayKeep(ev) == ev
AfterReplay(ev) == None

\* replay effect: if (didPass && currentEvent) { run; setCurrentEvent(undefined) }
ReplayEffect ==
  /\ op' = "replay"
  /\ UNCHANGED sweep
  /\ ReplayPending
  /\ calls' = calls + 1
  /\ call' = [event |-> currentEvent, data |-> FormData,
              immediate |-> FALSE]
  /\ currentEvent' = AfterReplay(currentEvent)
  /\ didPass' = ComputeDidPass(didPassData)
  /\ UNCHANGED <<didTapSubmit, didPassData, clearFuncs, mounted, required,
                 value, messages, didValidate, focused, nextEvent, cancelled>>

Next ==
  \/ \E id \in Ids, req \in BOOLEAN, v \in Values : Mount(id, req, v)
  \/ \E id \in Ids : Unmount(id)
  \/ \E id \in Ids : Focus(id)
  \/ \E id \in Ids, v \in Values : Change(id, v)
  \/ \E id \in Ids : Blur(id)
  \/ SignalEffects
  \/ Clear
  \/ Submit
  \/ ReplayEffect

Spec == Init /\ [][Next]_vars

\* ---- the Clear Registry as its clients see it (useFormDispatch) ----
\* The registry accepts any zero-argument function.  A registered action is
\* a record naming its owner and what it does when clear() invokes it:
\* nothing, register a new action for a target, or unregister a target.

ActionKinds == {"noop", "add", "del"}
LateAction(id) == [owner |-> id, kind |-> "late", target |-> id]

\* the array forEach walks: Object.values() is a copy, so the rest of the
\* walk does not follow later changes of the record
RemainingLive(todo, rec) ==
  SelectSeq(todo, LAMBDA a : a.owner \in DOMAIN rec /\ rec[a.owner] = a)
Remaining(todo, rec) == todo

\* what an invoked action does to the registry
Invoke(rec, a) ==
  IF a.kind = "add" THEN SetClearFunctions(rec, a.target, LateAction(a.target))
  ELSE IF a.kind = "del" THEN RemoveClearFunctions(rec, a.target)
  ELSE rec

RegistryFrame ==
  UNCHANGED <<didTapSubmit, currentEvent, didPassData, didPass, mounted,
              required, value, messages, didValidate, focused, nextEvent,
              calls, call, cancelled>>

\* setClearFunctions(id, func)
RegisterClear(id, kind, target) ==
  /\ op' = "register"
  /\ sweep.pc = "idle"
  /\ kind = "noop" => target = id
  /\ clearFuncs' = SetClearFunctions(clearFuncs, id,
                     [owner |-> id, kind |-> kind, target |-> target])
  /\ UNCHANGED sweep
  /\ RegistryFrame

\* removeClearFunctions(id)
UnregisterClear(id) ==
  /\ op' = "unregister"
  /\ sweep.pc = "idle"
  /\ id \in DOMAIN clearFuncs
  /\ clearFuncs' = RemoveClearFunctions(clearFuncs, id)
  /\ UNCHANGED sweep
  /\ RegistryFrame

\* clear(): Object.values(clearFuncsRecordRef.current)
ClearStart ==
  /\ op' = "clearStart"
  /\ sweep.pc = "idle"
  /\ LET snapshot == ObjectValues(clearFuncs)
     IN sweep' = [pc |-> IF snapshot = <<>> THEN "done" ELSE "running",
                  start |-> snapshot, todo |-> snapshot, invoked |-> <<>>]
  /\ UNCHANGED clearFuncs
  /\ RegistryFrame

\* one turn of .forEach(clearFunc => clearFunc())
ClearInvoke ==
  /\ op' = "clearInvoke"
  /\ sweep.pc = "running"
  /\ LET a == Head(sweep.todo)
         rest == Remaining(Tail(sweep.todo), Invoke(clearFuncs, a))
     IN /\ clearFuncs' = Invoke(clearFuncs, a)
        /\ sweep' = [sweep EXCEPT
                       !.pc = IF rest = <<>> THEN "done" ELSE "running",
                       !.todo = rest,
                       !.invoked = Append(sweep.invoked, a)]
  /\ RegistryFrame

\* clear() returns
ClearReturn ==
  /\ op' = "clearReturn"
  /\ sweep.pc = "done"
  /\ sweep' = NoSweep
  /\ UNCHANGED clearFuncs
  /\ RegistryFrame

RegistryNext ==
  \/ \E id \in Ids, kind \in ActionKinds, target \in Ids :
       RegisterClear(id, kind, target)
  \/ \E id \in Ids : UnregisterClear(id)
  \/ ClearStart
  \/ ClearInvoke
  \/ ClearReturn

RegistrySpec == Init /\ [][RegistryNext]_vars

\* ---- properties ----

\* every entry of the Result Registry is true, and there is at least one
AllEntriesTrue ==
  /\ DOMAIN didPassData # {}
  /\ \A id \in DOMAIN didPassData : didPassData[id]

\* C1: in every reachable state aggregate validity (didPass) is true iff
\* the Result Registry is non-empty and every entry in it is true.
C1_AggregateValidity == didPass <=> AllEntriesTrue

C1_Witness == didPass /\ Cardinality(DOMAIN didPassData) >= 2

C3_FocusDiscardsPending ==
  [][ /\ (op' = "focus" => currentEvent' = None /\ calls' = calls)
      /\ (cancelled' => currentEvent' = None)
      /\ (cancelled /\ cancelled' => calls' = calls /\ call' = NoCall)
    ]_vars

C3_Witness ==
  /\ cancelled
  /\ didTapSubmit
  /\ calls = 0
  /\ didPass
  /\ op = "blur"

\* C4: no step calls the submit collaborator from a state where the
\* registry is empty or some mounted field's entry is false.
C4_SubmitOnlyWhenValid ==
  [][ (didPassData = <<>> \/ \E id \in mounted : ~didPassData[id])
        => calls' = calls /\ call' = NoCall ]_vars

C4_Witness ==
  /\ op = "submit"
  /\ call = NoCall
  /\ \E id \in mounted : ~didPassData[id]

\* a form whose only field is f, required
OnlyRequired(f) == mounted = {f} /\ required[f]

C6_ClearAllResets ==
  [][ op' = "clear"
        => \A id \in mounted :
             /\ value'[id] = ""
             /\ messages'[id] = <<>>
             /\ id \in DOMAIN didPassData'
             /\ didPassData'[id] = ~required[id] ]_vars

C6_Witness ==
  /\ op = "clear"
  /\ Cardinality(mounted) >= 2
  /\ \E id \in mounted : required[id] /\ didValidate[id]
  /\ \E id \in mounted : ~required[id] /\ didValidate[id]

\* C7: a field identity has an entry in the Result Registry iff the field is
\* mounted, and likewise in the Clear Registry; aggregate validity counts
\* the mounted fields only.
C7_EntriesIffMounted ==
  /\ DOMAIN didPassData = mounted
  /\ DOMAIN clearFuncs = mounted
  /\ didPass = (mounted # {} /\ \A id \in mounted : didPassData[id])

C7_Witness ==
  /\ op = "unmount"
  /\ mounted # {}
  /\ ~didPass

\* C8: mounting a field leaves the entries of the other fields as they are,
\* and unmounting it leaves exactly the entries of the other fields, so that
\* aggregate validity is what those entries alone give.
C8_RegisterUnregister ==
  [][ /\ (op' = "mount"
            => \A k \in mounted : didPassData'[k] = didPassData[k])
      /\ (op' = "unmount"
            => /\ didPassData' = [k \in mounted' |-> didPassData[k]]
               /\ didPass' = (mounted' # {}
                                /\ \A k \in mounted' : didPassData[k]))
    ]_vars

C8_Witness ==
  /\ op = "unmount"
  /\ didPass
  /\ mounted # {}

\* C9: the pending slot holds at most one attempt; while it is occupied a
\* further submit attempt leaves it as it is, and it changes only by being
\* emptied, by the replay or by a focus.
C9_FirstWriterWins ==
  [][ currentEvent # None
        => \/ currentEvent' = currentEvent
           \/ currentEvent' = None /\ op' \in {"replay", "focus"} ]_vars

C9_Witness ==
  /\ op = "submit"
  /\ currentEvent = 1
  /\ nextEvent = 3

\* C10: a submit attempt made while aggregate validity is true calls the
\* collaborator once in that step, with that attempt's event and the
\* current field values, and stores no pending submit.
C10_ImmediateSubmit ==
  [][ op' = "submit" /\ didPass
        => /\ calls' = calls + 1
           /\ call' = [event |-> nextEvent,
                       data |-> [k \in mounted |-> value[k]],
                       immediate |-> TRUE]
           /\ currentEvent' = None ]_vars

C10_Witness ==
  /\ op = "submit"
  /\ call.immediate
  /\ currentEvent = None

\* C11: while the Result Registry is empty no step, whether a submit
\* attempt, a focus, a reset or an effect, calls the submit collaborator.
C11_EmptyFormNeverSubmits ==
  [][ DOMAIN didPassData = {} => calls' = calls /\ call' = NoCall ]_vars

C11_Witness ==
  /\ op = "submit"
  /\ mounted = {}
  /\ currentEvent # None
  /\ calls = 0

\* C12: cancelPendingSubmit (run by a focus) leaves the pending slot empty,
\* whether or not it was occupied, cancelling again changes nothing more,
\* and it leaves both registries, aggregate validity and the submit signal
\* as they are and makes no call.
C12_CancelIdempotent ==
  [][ op' = "focus"
        => /\ currentEvent' = None
           /\ CancelPendingSubmit(currentEvent') = currentEvent'
           /\ (currentEvent = None => currentEvent' = currentEvent)
           /\ UNCHANGED <<didPassData, clearFuncs, didPass, didTapSubmit,
                          calls>>
           /\ call' = NoCall ]_vars

C12_Witness ==
  /\ op = "focus"
  /\ didTapSubmit
  /\ calls = 0
  /\ ~didPass

\* C13: the submit signal starts false, is true after every submit attempt,
\* is raised by nothing else, and once true stays true under every step.
C13_SignalMonotonic ==
  /\ ~didTapSubmit
  /\ [][ /\ (didTapSubmit => didTapSubmit')
         /\ (op' = "submit" => didTapSubmit')
         /\ (~didTapSubmit /\ didTapSubmit' => op' = "submit") ]_vars

C13_Witness ==
  /\ didTapSubmit
  /\ op = "clear"
  /\ calls >= 1

\* C16: the report a losing-focus field makes sets only that field's entry
\* of the Result Registry: the registry keeps its keys and every other
\* entry, and the Clear Registry, the submit signal and the pending submit
\* stay as they are.
C16_ReportSetsOwnEntryOnly ==
  [][ op' = "blur"
        => /\ \E b \in BOOLEAN :
                didPassData' = [didPassData EXCEPT ![focused] = b]
           /\ \A k \in mounted \ {focused} : didPassData'[k] = didPassData[k]
           /\ UNCHANGED <<clearFuncs, didTapSubmit, currentEvent>> ]_vars

C16_Witness ==
  /\ op = "blur"
  /\ Cardinality(mounted) = 2
  /\ \E j, k \in mounted : didPassData[j] /\ ~didPassData[k]
  /\ currentEvent # None

\* C17: a mount before any submit attempt leaves the field's entry at
\* "not required" and the field unvalidated; a mount after the submit signal
\* was raised leaves the entry at the outcome of validating the field's
\* value, the default having been registered first.
C17_MountDefaultThenValidate ==
  [][ op' = "mount"
        => \A id \in mounted' \ mounted :
             IF didTapSubmit
             THEN /\ didPassData'[id]
                       = Rule(value'[id], required'[id]).passed
                  /\ didValidate'[id]
             ELSE /\ didPassData'[id] = ~required'[id]
                  /\ ~didValidate'[id] ]_vars

C17_Witness ==
  /\ op = "mount"
  /\ didTapSubmit
  /\ \E id \in Ids : mounted = {id} /\ required[id] /\ didPassData[id]

\* C18: whenever the submit collaborator is called, the current value of
\* every mounted field passes that field's validation rule.
C18_SubmittedValuesValid ==
  [][ calls' # calls
        => \A id \in mounted : Rule(value[id], required[id]).passed ]_vars

\* C19: a reset is not followed by a call of the submit collaborator unless
\* a new submit attempt is made: the step after clear(), when it is not a
\* submit attempt, makes no call.
C19_ClearNeverReplays ==
  [][ op = "clear" /\ op' # "submit" => calls' = calls ]_vars

\* C20: a replay leaves the pending slot empty, so no state reached by it
\* has a pending submit together with aggregate validity true; and while
\* the slot is empty only a submit attempt calls the collaborator or fills
\* the slot, whatever aggregate validity does.
C20_ReplayEmptiesSlot ==
  [][ /\ (op' = "replay"
            => currentEvent' = None /\ ~(didPass' /\ currentEvent' # None))
      /\ (currentEvent = None /\ op' # "submit"
            => calls' = calls /\ currentEvent' = None)
    ]_vars

C20_Witness ==
  /\ op = "replay"
  /\ didPass
  /\ currentEvent = None
  /\ Cardinality(mounted) = 2

\* number of places of sequence s that hold a
Count(a, s) == Cardinality({i \in DOMAIN s : s[i] = a})

\* C14: when clear() is done, every action that was registered at the
\* moment of the call has been invoked exactly once and nothing else has,
\* whatever the invoked actions registered or unregistered meanwhile.
C14_ClearInvokesSnapshotOnce ==
  sweep.pc = "done"
    => /\ \A i \in DOMAIN sweep.start :
            Count(sweep.start[i], sweep.invoked) = 1
       /\ Len(sweep.invoked) = Len(sweep.start)
       /\ \A i \in DOMAIN sweep.invoked :
            Count(sweep.invoked[i], sweep.start) = 1

C14_Witness ==
  /\ sweep.pc = "done"
  /\ Len(sweep.invoked) = 2
  /\ sweep.invoked[1].kind = "del"
  /\ sweep.invoked[1].target = sweep.invoked[2].owner
  /\ sweep.invoked[2].kind = "add"
  /\ clearFuncs[sweep.invoked[2].target].kind = "late"

\* C15: setClearFunctions(id, f) and removeClearFunctions(id) change the
\* Clear Registry at id only, and leave the Result Registry, aggregate
\* validity, the submit signal and the pending submit as they are.
C15_RegistrationFrame ==
  [][ op' \in {"register", "unregister"}
        => /\ UNCHANGED <<didPassData, didPass, didTapSubmit, currentEvent>>
           /\ \E id \in Ids :
                \A k \in Ids \ {id} :
                  /\ k \in DOMAIN clearFuncs' <=> k \in DOMAIN clearFuncs
                  /\ k \in DOMAIN clearFuncs
                       => clearFuncs'[k] = clearFuncs[k] ]_vars

C15_Witness ==
  /\ op = "register"
  /\ Cardinality(DOMAIN clearFuncs) = NumFields

====
